---- MODULE Spec2Model ----
(***************************************************************************)
(* A model of OpenAPIToMCPConverter                                        *)
(* (src/openapi-mcp-server/openapi/parser.ts).                             *)
(*                                                                         *)
(* JavaScript values are modelled as follows.                              *)
(*   - a string is a TLA+ string (Len, SubSeq and \o act on it);            *)
(*   - an object is a function from its keys to its values; an absent key  *)
(*     is a key outside its DOMAIN; the empty object is Empty;             *)
(*   - an array of strings or schemas is a sequence; an array that stands  *)
(*     where a schema is expected (tuple `items`) is [tuple |-> <<...>>];  *)
(*   - a primitive that stands where an object is expected is              *)
(*     [prim |-> "null" | "true" | "false"];                               *)
(*   - null / undefined returned by a method is Null;                      *)
(*   - an object held by schemaCache and handed out by reference is        *)
(*     [heapRef |-> ref]: the object lives in schemaCache[ref], so that a  *)
(*     later assignment to one of its fields is seen by every holder.      *)
(* Object.entries visits the keys of the modelled objects in the order of  *)
(* KeyOrder: the documents enumerated by Init are written in that order    *)
(* (for the integer-like response codes this is JavaScript's own order).   *)
(***************************************************************************)
EXTENDS Integers, Sequences, FiniteSets, TLC

Empty == [k \in {} |-> TRUE]

Null == [isNull |-> TRUE]

Prim(p) == [prim |-> p]

IsPrim(v) == "prim" \in DOMAIN v

\* JavaScript truthiness of a value that is an object or a primitive.
TruthyValue(v) == IF IsPrim(v) THEN v.prim = "true" ELSE v # Null

\* `o[k]` is a non-empty string.
TruthyString(o, k) == k \in DOMAIN o /\ o[k] # ""

\* Object spread of an optional part.
Opt(cond, rec) == IF cond THEN rec ELSE Empty

\* The order in which Object.entries visits the keys of the modelled objects.
KeyOrder ==
  << "200", "201", "202", "204", "404", "500",
     "A", "B", "C", "D",
     "a", "body", "file", "id", "limit", "name", "next", "peer", "tags", "title" >>

EntriesOrder(keys) == SelectSeq(KeyOrder, LAMBDA k : k \in keys)

----------------------------------------------------------------------------
(* String.prototype helpers *)

startsWith(s, p) == Len(s) >= Len(p) /\ SubSeq(s, 1, Len(p)) = p

\* s.replace(p, '') and s.replace(/^p/, q) for a string s that starts with p.
replacePrefix(s, p, q) == q \o SubSeq(s, Len(p) + 1, Len(s))

RECURSIVE splitFrom(_, _, _)
splitFrom(s, cur, i) ==
  IF i > Len(s) THEN << cur >>
  ELSE IF SubSeq(s, i, i) = "/" THEN << cur >> \o splitFrom(s, "", i + 1)
  ELSE splitFrom(s, cur \o SubSeq(s, i, i), i + 1)

\* s.split('/')
split(s) == splitFrom(s, "", 1)

UpperCaseLetters == "ABCDEFGHIJKLMNOPQRSTUVWXYZ"

LowerCaseLetters == "abcdefghijklmnopqrstuvwxyz"

lowerChar(c) ==
  LET hits == { i \in 1..Len(UpperCaseLetters) : SubSeq(UpperCaseLetters, i, i) = c }
  IN  IF hits = {} THEN c
      ELSE LET i == CHOOSE j \in hits : TRUE IN SubSeq(LowerCaseLetters, i, i)

RECURSIVE toLowerCase(_)
toLowerCase(s) ==
  IF s = "" THEN "" ELSE lowerChar(SubSeq(s, 1, 1)) \o toLowerCase(SubSeq(s, 2, Len(s)))

\* s.padStart(width, '0')
RECURSIVE padStart(_, _)
padStart(s, width) == IF Len(s) >= width THEN s ELSE padStart("0" \o s, width)

RECURSIVE join(_, _)
join(lines, sep) ==
  IF lines = << >> THEN ""
  ELSE IF Len(lines) = 1 THEN lines[1]
  ELSE lines[1] \o sep \o join(Tail(lines), sep)

----------------------------------------------------------------------------
(* The converter instance, as the record `self` threaded through its       *)
(* methods: openApiSpec, filterConfig, schemaCache, nameCounter,           *)
(* allComponentSchemas, and the two things a method leaves behind besides  *)
(* its return value: the diagnostics written to the console (diag) and     *)
(* whether a TypeError was raised (threw).                                 *)

Res(v, self) == [val |-> v, self |-> self]

ResR(v, rr, self) == [val |-> v, resolvedRefs |-> rr, self |-> self]

Raise(self) == [self EXCEPT !.threw = TRUE]

Log(self, d) == [self EXCEPT !.diag = @ \cup {d}]

IsHeapRef(v) == "heapRef" \in DOMAIN v

\* The object a value denotes: a cached object is read through schemaCache.
RECURSIVE Root(_, _)
Root(v, cache) == IF IsHeapRef(v) THEN Root(cache[v.heapRef], cache) ELSE v

\* The schemaCache key of the object a [heapRef] value denotes.
RECURSIVE RootKey(_, _)
RootKey(v, cache) ==
  IF IsHeapRef(cache[v.heapRef]) THEN RootKey(cache[v.heapRef], cache) ELSE v.heapRef

\* obj[field] = value, on an object that may be shared through schemaCache.
setField(obj, field, value, self) ==
  IF IsHeapRef(obj)
  THEN LET k == RootKey(obj, self.schemaCache)
       IN  Res(obj, [self EXCEPT !.schemaCache[k] = (field :> value) @@ @])
  ELSE Res((field :> value) @@ obj, self)

walkStep(current, part) ==
  IF current = Null \/ part \notin DOMAIN current THEN Null ELSE current[part]

RECURSIVE walk(_, _)
walk(current, parts) ==
  IF parts = << >> THEN current
  ELSE LET next == walkStep(current, Head(parts))
       IN  IF ~ TruthyValue(next) THEN Null ELSE walk(next, Tail(parts))

\* internalResolveRef adding the pointer to the visited set before the walk.
internalResolveRefMarkFirst(ref, resolvedRefs, self) ==
  IF ~ startsWith(ref, "#/") THEN [val |-> Null, resolvedRefs |-> resolvedRefs]
  ELSE IF ref \in resolvedRefs THEN [val |-> Null, resolvedRefs |-> resolvedRefs]
  ELSE [val |-> walk(self.openApiSpec, split(replacePrefix(ref, "#/", ""))),
        resolvedRefs |-> resolvedRefs \cup {ref}]

internalResolveRef(ref, resolvedRefs, self) ==
  IF ~ startsWith(ref, "#/") THEN [val |-> Null, resolvedRefs |-> resolvedRefs]
  ELSE IF ref \in resolvedRefs THEN [val |-> Null, resolvedRefs |-> resolvedRefs]
  ELSE LET current == walk(self.openApiSpec, split(replacePrefix(ref, "#/", "")))
       IN  IF current = Null THEN [val |-> Null, resolvedRefs |-> resolvedRefs]
           ELSE [val |-> current, resolvedRefs |-> resolvedRefs \cup {ref}]

----------------------------------------------------------------------------
(* SchemaConverter *)

IsType(schema, t) == "type" \in DOMAIN schema /\ schema.type = t

\* `'description' in schema ? { description: schema.description } : {}`
descriptionSpread(schema) ==
  Opt("description" \in DOMAIN schema, [description |-> schema.description])

\* The node returned for a reference that is not followed (lines 160-163) or
\* cannot be resolved (lines 183-186).
pointerNode(ref, description) ==
  LET target == IF startsWith(ref, "#/components/schemas/")
                THEN replacePrefix(ref, "#/components/schemas/", "#/$defs/")
                ELSE ref
  IN  ("$ref" :> target) @@ description

binaryDesc == "absolute paths to local files"

\* inlineScalars with the note replacing the description of a binary node.
inlineScalarsReplacing(schema) ==
  Opt(TruthyString(schema, "type"), [type |-> schema.type])
  @@ (IF "format" \in DOMAIN schema /\ schema.format = "binary"
      THEN [format |-> "uri-reference", description |-> binaryDesc]
      ELSE Opt(TruthyString(schema, "description"), [description |-> schema.description]))
  @@ Opt("enum" \in DOMAIN schema, [enum |-> schema.enum])
  @@ Opt("default" \in DOMAIN schema, [default |-> schema.default])

\* Lines 196-220: type, format, description, enum and default of an inline schema.
inlineScalars(schema) ==
  Opt(TruthyString(schema, "type"), [type |-> schema.type])
  @@ (IF "format" \in DOMAIN schema /\ schema.format = "binary"
      THEN [format |-> "uri-reference",
            description |-> IF TruthyString(schema, "description")
                            THEN schema.description \o " (" \o binaryDesc \o ")"
                            ELSE binaryDesc]
      ELSE Opt(TruthyString(schema, "description"), [description |-> schema.description]))
  @@ Opt("enum" \in DOMAIN schema, [enum |-> schema.enum])
  @@ Opt("default" \in DOMAIN schema, [default |-> schema.default])

RECURSIVE convertOpenApiSchemaToJsonSchema(_, _, _, _)
RECURSIVE convertProperties(_, _, _, _)
RECURSIVE convertEach(_, _, _)

\* result[key] = the schema just converted (lines 228, 240, 247, 251-257).
putConverted(acc, key, r) == ResR((key :> r.val) @@ acc.val, r.resolvedRefs, r.self)

\* One element of schemas.map(...), lines 251-257.
appendConverted(acc, r) == ResR(Append(acc.val, r.val), r.resolvedRefs, r.self)

\* The loop of lines 227-229 over Object.entries(schema.properties).
convertProperties(props, keys, resolveRefs, acc) ==
  IF keys = << >> \/ acc.self.threw THEN acc
  ELSE convertProperties(props, Tail(keys), resolveRefs,
         putConverted(acc, Head(keys),
           convertOpenApiSchemaToJsonSchema(props[Head(keys)], acc.resolvedRefs,
                                            resolveRefs, acc.self)))

\* schemas.map((s) => this.convertOpenApiSchemaToJsonSchema(s, ...)), lines 251-257.
convertEach(schemas, resolveRefs, acc) ==
  IF schemas = << >> \/ acc.self.threw THEN acc
  ELSE convertEach(Tail(schemas), resolveRefs,
         appendConverted(acc,
           convertOpenApiSchemaToJsonSchema(Head(schemas), acc.resolvedRefs,
                                            resolveRefs, acc.self)))

\* Lines 188-190: the converted schema is cached under the reference and the
\* caller receives the cached object itself.
cacheConverted(ref, c) ==
  IF c.self.threw THEN c
  ELSE ResR([heapRef |-> ref], c.resolvedRefs,
            [c.self EXCEPT !.schemaCache = (ref :> c.val) @@ @])

\* Lines 181-190, `resolved` being what internalResolveRef returned.
convertResolved(schema, ref, resolved, resolvedRefs, resolveRefs, self) ==
  IF resolved.val = Null
  THEN ResR(pointerNode(ref, [description |-> IF "description" \in DOMAIN schema
                                              THEN schema.description ELSE ""]),
            resolvedRefs,
            Log(self, [kind |-> "Failed to resolve ref", ref |-> ref]))
  ELSE cacheConverted(ref,
         convertOpenApiSchemaToJsonSchema(resolved.val, resolved.resolvedRefs,
                                          resolveRefs, self))

\* Lines 168-192: the reference is looked up in the cache, else resolved,
\* converted and cached.
convertReference(schema, ref, resolvedRefs, resolveRefs, self) ==
  IF ref \in DOMAIN self.schemaCache THEN ResR([heapRef |-> ref], resolvedRefs, self)
  ELSE convertResolved(schema, ref, internalResolveRef(ref, resolvedRefs, self),
                       resolvedRefs, resolveRefs, self)

hasSchemaAdditionalProperties(schema) ==
  /\ IsType(schema, "object")
  /\ "additionalProperties" \in DOMAIN schema
  /\ ~ IsPrim(schema.additionalProperties)

hasItems(schema) ==
  IsType(schema, "array") /\ "items" \in DOMAIN schema /\ TruthyValue(schema.items)

\* inlineStart copying a boolean additionalProperties whatever its value.
inlineStartAnyBoolean(schema) ==
  Opt(IsType(schema, "object"), [type |-> "object"])
  @@ Opt(hasItems(schema), [type |-> "array"])
  @@ inlineScalars(schema)
  @@ Opt(IsType(schema, "object") /\ "required" \in DOMAIN schema /\ Len(schema.required) > 0,
         [required |-> schema.required])
  @@ Opt(IsType(schema, "object") /\ "additionalProperties" \in DOMAIN schema
           /\ IsPrim(schema.additionalProperties),
         [additionalProperties |-> schema.additionalProperties])

\* The members of the result of lines 195-260 that call for no conversion.
inlineStart(schema) ==
  Opt(IsType(schema, "object"), [type |-> "object"])
  @@ Opt(hasItems(schema), [type |-> "array"])
  @@ inlineScalars(schema)
  @@ Opt(IsType(schema, "object") /\ "required" \in DOMAIN schema /\ Len(schema.required) > 0,
         [required |-> schema.required])
  @@ Opt(IsType(schema, "object") /\ "additionalProperties" \in DOMAIN schema
           /\ schema.additionalProperties = Prim("false"),
         [additionalProperties |-> Prim("false")])

\* Lines 225-230.
inlineProperties(schema, resolveRefs, acc) ==
  IF IsType(schema, "object") /\ "properties" \in DOMAIN schema
  THEN putConverted(acc, "properties",
         convertProperties(schema.properties, EntriesOrder(DOMAIN schema.properties),
                           resolveRefs, ResR(Empty, acc.resolvedRefs, acc.self)))
  ELSE acc

\* Lines 236-241.
inlineAdditionalProperties(schema, resolveRefs, acc) ==
  IF hasSchemaAdditionalProperties(schema)
  THEN putConverted(acc, "additionalProperties",
         convertOpenApiSchemaToJsonSchema(schema.additionalProperties, acc.resolvedRefs,
                                          resolveRefs, acc.self))
  ELSE acc

\* Lines 245-248.
inlineItems(schema, resolveRefs, acc) ==
  IF hasItems(schema)
  THEN putConverted(acc, "items",
         convertOpenApiSchemaToJsonSchema(schema.items, acc.resolvedRefs,
                                          resolveRefs, acc.self))
  ELSE acc

\* Lines 251-257, for one of oneOf, anyOf and allOf.
inlineComposite(schema, key, resolveRefs, acc) ==
  IF key \in DOMAIN schema
  THEN putConverted(acc, key,
         convertEach(schema[key], resolveRefs, ResR(<< >>, acc.resolvedRefs, acc.self)))
  ELSE acc

\* Lines 195-260: an inline schema.
convertInline(schema, resolvedRefs, resolveRefs, self) ==
  inlineComposite(schema, "allOf", resolveRefs,
    inlineComposite(schema, "anyOf", resolveRefs,
      inlineComposite(schema, "oneOf", resolveRefs,
        inlineItems(schema, resolveRefs,
          inlineAdditionalProperties(schema, resolveRefs,
            inlineProperties(schema, resolveRefs,
              ResR(inlineStart(schema), resolvedRefs, self)))))))

\* Lines 158-192, `ref` being schema.$ref.
convertPointer(schema, ref, resolvedRefs, resolveRefs, self) ==
  IF ~ resolveRefs /\ startsWith(ref, "#/components/schemas/")
  THEN ResR(pointerNode(ref, descriptionSpread(schema)), resolvedRefs, self)
  ELSE convertReference(schema, ref, resolvedRefs, resolveRefs,
         IF ~ resolveRefs
         THEN Log(self, [kind |-> "ref not found in components collection", ref |-> ref])
         ELSE self)

convertOpenApiSchemaToJsonSchema(schema, resolvedRefs, resolveRefs, self) ==
  IF self.threw THEN ResR(Null, resolvedRefs, self)
  ELSE IF IsPrim(schema)
  THEN \* `'$ref' in schema` on a primitive: TypeError
       ResR(Null, resolvedRefs, Raise(self))
  ELSE IF "$ref" \in DOMAIN schema
  THEN convertPointer(schema, schema["$ref"], resolvedRefs, resolveRefs, self)
  ELSE convertInline(schema, resolvedRefs, resolveRefs, self)

----------------------------------------------------------------------------
(* ReferenceClosureBuilder *)

\* schemas[key] = the schema just converted (line 358).
putComponent(acc, key, r) == Res((key :> r.val) @@ acc.val, r.self)

RECURSIVE convertComponents(_, _, _)
\* The loop of lines 357-359 over Object.entries(components.schemas).
convertComponents(schemas, keys, acc) ==
  IF keys = << >> \/ acc.self.threw THEN acc
  ELSE convertComponents(schemas, Tail(keys),
         putComponent(acc, Head(keys),
           convertOpenApiSchemaToJsonSchema(schemas[Head(keys)], {}, FALSE, acc.self)))

\* this.openApiSpec.components?.schemas || {}
componentSchemas(spec) ==
  IF "components" \in DOMAIN spec /\ "schemas" \in DOMAIN spec.components
  THEN spec.components.schemas ELSE Empty

RECURSIVE convertComponentsResolved(_, _, _)
convertComponentsResolved(schemas, keys, acc) ==
  IF keys = << >> \/ acc.self.threw THEN acc
  ELSE convertComponentsResolved(schemas, Tail(keys),
         putComponent(acc, Head(keys),
           convertOpenApiSchemaToJsonSchema(schemas[Head(keys)], {}, TRUE, acc.self)))

\* convertComponentsToJsonSchema following every reference (resolveRefs true),
\* so that a component carries the bodies of the components it references.
convertComponentsToJsonSchemaResolved(self) ==
  convertComponentsResolved(componentSchemas(self.openApiSpec),
                            EntriesOrder(DOMAIN componentSchemas(self.openApiSpec)),
                            Res(Empty, self))

convertComponentsToJsonSchema(self) ==
  convertComponents(componentSchemas(self.openApiSpec),
                    EntriesOrder(DOMAIN componentSchemas(self.openApiSpec)),
                    Res(Empty, self))

\* Line 38: this.allComponentSchemas = the converted components.
storeComponentSchemas(r) ==
  IF r.self.threw THEN r.self ELSE [r.self EXCEPT !.allComponentSchemas = r.val]

\* Returns the instance, with allComponentSchemas computed if it was null.
getAllComponentSchemas(self) ==
  IF self.allComponentSchemas # Null THEN self
  ELSE storeComponentSchemas(convertComponentsToJsonSchema(self))

\* [collected, self]: the set being filled and the instance.
Col(collected, self) == [collected |-> collected, self |-> self]

RECURSIVE collectReferencedSchemaNames(_, _, _)
RECURSIVE collectEach(_, _)

\* A loop calling collectReferencedSchemaNames on each schema of a list.
collectEach(schemas, c) ==
  IF schemas = << >> \/ c.self.threw THEN c
  ELSE collectEach(Tail(schemas),
                   collectReferencedSchemaNames(Head(schemas), c.collected, c.self))

\* Lines 58-63, `self` having its allComponentSchemas computed.
collectComponent(schemaName, collected, self) ==
  IF ~ self.threw /\ schemaName \in DOMAIN self.allComponentSchemas
  THEN collectReferencedSchemaNames(self.allComponentSchemas[schemaName],
                                    collected \cup {schemaName}, self)
  ELSE Col(collected \cup {schemaName}, self)

\* Lines 53-66.
collectPointer(schema, c) ==
  IF /\ "$ref" \in DOMAIN schema
     /\ startsWith(schema["$ref"], "#/$defs/")
     /\ replacePrefix(schema["$ref"], "#/$defs/", "") \notin c.collected
  THEN collectComponent(replacePrefix(schema["$ref"], "#/$defs/", ""), c.collected,
                        getAllComponentSchemas(c.self))
  ELSE c

\* Object.values(schema.properties)
propertyValues(properties) ==
  [i \in 1..Len(EntriesOrder(DOMAIN properties)) |->
     properties[EntriesOrder(DOMAIN properties)[i]]]

\* Lines 69-73.
collectProperties(schema, c) ==
  IF "properties" \in DOMAIN schema
  THEN collectEach(propertyValues(schema.properties), c)
  ELSE c

\* Lines 76-84.
collectItems(schema, c) ==
  IF "items" \in DOMAIN schema /\ TruthyValue(schema.items)
  THEN IF "tuple" \in DOMAIN schema.items
       THEN collectEach(schema.items.tuple, c)
       ELSE collectReferencedSchemaNames(schema.items, c.collected, c.self)
  ELSE c

\* Lines 87-89.
collectAdditionalProperties(schema, c) ==
  IF "additionalProperties" \in DOMAIN schema /\ ~ IsPrim(schema.additionalProperties)
  THEN collectReferencedSchemaNames(schema.additionalProperties, c.collected, c.self)
  ELSE c

\* Lines 92-99, for one of oneOf, anyOf and allOf.
collectComposite(schema, key, c) ==
  IF key \in DOMAIN schema THEN collectEach(schema[key], c) ELSE c

\* Lines 53-99 on the object the schema denotes.
collectNode(schema, c) ==
  collectComposite(schema, "allOf",
    collectComposite(schema, "anyOf",
      collectComposite(schema, "oneOf",
        collectAdditionalProperties(schema,
          collectItems(schema,
            collectProperties(schema,
              collectPointer(schema, c)))))))

collectReferencedSchemaNames(schemaValue, collected, self) ==
  IF self.threw \/ schemaValue = Null \/ IsPrim(schemaValue) THEN Col(collected, self)
  ELSE collectNode(Root(schemaValue, self.schemaCache), Col(collected, self))

\* Lines 116-122 over the names met: those that are components, or Null for
\* undefined when none is.
selectDefs(names, self) ==
  IF self.threw THEN Res(Null, self)
  ELSE Res(IF names \cap DOMAIN self.allComponentSchemas # {}
           THEN [name \in names \cap DOMAIN self.allComponentSchemas |->
                   self.allComponentSchemas[name]]
           ELSE Null,
           self)

\* Lines 111-122, `r` being what collectReferencedSchemaNames returned.
defsOfCollected(r) ==
  IF r.self.threw \/ r.collected = {} THEN Res(Null, r.self)
  ELSE selectDefs(r.collected, getAllComponentSchemas(r.self))

\* selectDefs over names met without the bodies of the components followed.
selectDefsDirect(r, allSchemas) ==
  selectDefs(r.collected, [r.self EXCEPT !.allComponentSchemas = allSchemas])

collectDirect(schema, self) ==
  IF self.threw THEN Res(Null, self)
  ELSE selectDefsDirect(
         collectReferencedSchemaNames(schema, {}, [self EXCEPT !.allComponentSchemas = Empty]),
         self.allComponentSchemas)

\* buildSelectiveDefs over the names met in the schema itself, the bodies of
\* the referenced components not being followed.
buildSelectiveDefsDirect(schema, self) ==
  collectDirect(schema, getAllComponentSchemas(self))

selectDefsAll(self) ==
  IF self.threw THEN Res(Null, self)
  ELSE Res(IF DOMAIN self.allComponentSchemas # {} THEN self.allComponentSchemas ELSE Null,
           self)

defsOfCollectedAll(r) ==
  IF r.self.threw \/ r.collected = {} THEN Res(Null, r.self)
  ELSE selectDefsAll(getAllComponentSchemas(r.self))

\* buildSelectiveDefs attaching every component once one is referenced.
buildSelectiveDefsAll(schema, self) ==
  defsOfCollectedAll(collectReferencedSchemaNames(schema, {}, self))

selectDefsKeepEmpty(names, self) ==
  IF self.threw THEN Res(Null, self)
  ELSE Res([name \in names \cap DOMAIN self.allComponentSchemas |->
              self.allComponentSchemas[name]],
           self)

defsOfCollectedKeepEmpty(r) ==
  IF r.self.threw \/ r.collected = {} THEN Res(Null, r.self)
  ELSE selectDefsKeepEmpty(r.collected, getAllComponentSchemas(r.self))

\* buildSelectiveDefs without the emptiness test of its last line.
buildSelectiveDefsKeepEmpty(schema, self) ==
  defsOfCollectedKeepEmpty(collectReferencedSchemaNames(schema, {}, self))

\* Returns the selective $defs map, or Null for undefined.
buildSelectiveDefs(schema, self) ==
  defsOfCollected(collectReferencedSchemaNames(schema, {}, self))

----------------------------------------------------------------------------
(* OperationCompiler *)

isOperation(method) == toLowerCase(method) \in {"get", "post", "put", "delete", "patch"}

isParameterObject(param) == "$ref" \notin DOMAIN param

isRequestBodyObject(body) == "$ref" \notin DOMAIN body

\* Lines 444-448, `resolved` being what internalResolveRef returned.
resolvedParameter(resolved) ==
  IF resolved # Null /\ TruthyString(resolved, "name") THEN resolved ELSE Null

resolveParameter(param, self) ==
  IF isParameterObject(param) THEN param
  ELSE resolvedParameter(internalResolveRef(param["$ref"], {}, self).val)

resolveRequestBody(body, self) ==
  IF isRequestBodyObject(body) THEN body
  ELSE internalResolveRef(body["$ref"], {}, self).val

resolveResponse(response, self) ==
  IF "$ref" \in DOMAIN response
  THEN internalResolveRef(response["$ref"], {}, self).val
  ELSE response

\* The object schema under construction and the instance.
Acc(properties, required, self) ==
  [properties |-> properties, required |-> required, self |-> self]

\* Lines 500-503: schema.properties[name] = the schema, required.push(name).
addProperty(paramObj, acc, d) ==
  Acc((paramObj.name :> d.val) @@ acc.properties,
      IF "required" \in DOMAIN paramObj /\ paramObj.required
      THEN Append(acc.required, paramObj.name) ELSE acc.required,
      d.self)

\* Lines 497-499: the parameter's description is written on its schema.
describeParameter(paramObj, c) ==
  IF ~ c.self.threw /\ TruthyString(paramObj, "description")
  THEN setField(c.val, "description", paramObj.description, c.self)
  ELSE Res(c.val, c.self)

\* Lines 494-504, `paramObj` being the resolved parameter.
handleParameter(paramObj, acc) ==
  IF paramObj # Null /\ "schema" \in DOMAIN paramObj /\ TruthyValue(paramObj.schema)
  THEN addProperty(paramObj, acc,
         describeParameter(paramObj,
           convertOpenApiSchemaToJsonSchema(paramObj.schema, {}, FALSE, acc.self)))
  ELSE acc

RECURSIVE handleParameters(_, _)
\* The loop of lines 491-506 (the same loop stands at lines 378-393).
handleParameters(params, acc) ==
  IF params = << >> \/ acc.self.threw THEN acc
  ELSE handleParameters(Tail(params),
                        handleParameter(resolveParameter(Head(params), acc.self), acc))

\* Lines 484-506 and 372-393.
startParameters(operation, self) ==
  IF "parameters" \in DOMAIN operation
  THEN handleParameters(operation.parameters, Acc(Empty, << >>, self))
  ELSE Acc(Empty, << >>, self)

\* `content[mediaType]?.schema` is truthy.
hasContentSchema(content, mediaType) ==
  /\ mediaType \in DOMAIN content
  /\ "schema" \in DOMAIN content[mediaType]
  /\ TruthyValue(content[mediaType].schema)

\* Lines 517-524, 530-536 and 401-408 on the object the body schema denotes.
mergeProperties(body, acc) ==
  IF IsType(body, "object") /\ "properties" \in DOMAIN body
  THEN [merged |-> TRUE,
        acc |-> Acc(body.properties @@ acc.properties,
                    IF "required" \in DOMAIN body
                    THEN acc.required \o body.required ELSE acc.required,
                    acc.self)]
  ELSE [merged |-> FALSE, acc |-> acc]

\* The same lines on a converted body schema, which may be a cached object;
\* `merged` tells whether its properties were merged in.
mergeObjectBody(c, acc) ==
  IF c.self.threw THEN [merged |-> TRUE, acc |-> [acc EXCEPT !.self = c.self]]
  ELSE mergeProperties(Root(c.val, c.self.schemaCache), [acc EXCEPT !.self = c.self])

\* Lines 537-541: a body that was not merged goes under `body`.
nestBody(c, m) ==
  IF m.merged THEN m.acc
  ELSE Acc(("body" :> c.val) @@ m.acc.properties, Append(m.acc.required, "body"), c.self)

\* Lines 530-541.
mergeJsonBody(c, acc) == nestBody(c, mergeObjectBody(c, acc))

\* Lines 510-543, `bodyObj` being the resolved request body.
handleBodyMCP(bodyObj, acc) ==
  IF bodyObj = Null \/ "content" \notin DOMAIN bodyObj THEN acc
  ELSE IF hasContentSchema(bodyObj.content, "multipart/form-data")
  THEN mergeObjectBody(
         convertOpenApiSchemaToJsonSchema(bodyObj.content["multipart/form-data"].schema,
                                          {}, FALSE, acc.self),
         acc).acc
  ELSE IF hasContentSchema(bodyObj.content, "application/json")
  THEN mergeJsonBody(
         convertOpenApiSchemaToJsonSchema(bodyObj.content["application/json"].schema,
                                          {}, FALSE, acc.self),
         acc)
  ELSE acc

\* Lines 508-544.
handleRequestBodyMCP(operation, acc) ==
  IF acc.self.threw \/ "requestBody" \notin DOMAIN operation THEN acc
  ELSE handleBodyMCP(resolveRequestBody(operation.requestBody, acc.self), acc)

\* Lines 397-410, `bodyObj` being the resolved request body.
handleBodyJson(bodyObj, acc) ==
  IF bodyObj = Null \/ "content" \notin DOMAIN bodyObj THEN acc
  ELSE IF hasContentSchema(bodyObj.content, "application/json")
  THEN mergeObjectBody(
         convertOpenApiSchemaToJsonSchema(bodyObj.content["application/json"].schema,
                                          {}, FALSE, acc.self),
         acc).acc
  ELSE acc

\* Lines 395-411.
handleRequestBodyJson(operation, acc) ==
  IF acc.self.threw \/ "requestBody" \notin DOMAIN operation THEN acc
  ELSE handleBodyJson(resolveRequestBody(operation.requestBody, acc.self), acc)

\* Lines 485-489 and 565-568: the object schema, its empty `required` deleted.
objectSchema(acc) ==
  [type |-> "object", properties |-> acc.properties]
  @@ Opt(acc.required # << >>, [required |-> acc.required])

\* Lines 571-574 and 419-422: schema['$defs'] = the selective definitions.
attachDefs(schema, defs) ==
  IF defs.self.threw THEN Res(Null, defs.self)
  ELSE Res(Opt(defs.val # Null, "$defs" :> defs.val) @@ schema, defs.self)

selectiveDefsOf(schema, self) == attachDefs(schema, buildSelectiveDefs(schema, self))

\* Lines 565-574 and 413-422.
finishObjectSchema(acc) == selectiveDefsOf(objectSchema(acc), acc.self)

finishUnlessRaised(acc) ==
  IF acc.self.threw THEN Res(Null, acc.self) ELSE finishObjectSchema(acc)

convertOperationToJsonSchema(operation, self) ==
  finishUnlessRaised(handleRequestBodyJson(operation, startParameters(operation, self)))

\* Lines 596-598: returnSchema['$defs'] = the selective definitions.
setReturnDefs(val, defs) ==
  IF defs.self.threw THEN Res(Null, defs.self)
  ELSE IF defs.val # Null THEN setField(val, "$defs", defs.val, defs.self)
  ELSE Res(val, defs.self)

\* Lines 595-598, `c` being the converted response schema.
returnDefs(c) ==
  IF c.self.threw THEN Res(Null, c.self)
  ELSE setReturnDefs(c.val, buildSelectiveDefs(c.val, c.self))

\* Lines 601-603.
describeReturn(responseObj, r) ==
  IF r.self.threw THEN r
  ELSE IF TruthyString(responseObj, "description")
          /\ ~ TruthyString(Root(r.val, r.self.schemaCache), "description")
  THEN setField(r.val, "description", responseObj.description, r.self)
  ELSE r

\* Lines 592-614, `responseObj` being the resolved response.
responseType(responseObj, self) ==
  IF responseObj = Null \/ "content" \notin DOMAIN responseObj THEN Res(Null, self)
  ELSE IF hasContentSchema(responseObj.content, "application/json")
  THEN describeReturn(responseObj,
         returnDefs(convertOpenApiSchemaToJsonSchema(
                      responseObj.content["application/json"].schema, {}, FALSE, self)))
  ELSE Res(Opt("image/png" \in DOMAIN responseObj.content
                 \/ "image/jpeg" \in DOMAIN responseObj.content,
               [format |-> "binary"])
           @@ [type |-> "string",
               description |-> IF TruthyString(responseObj, "description")
                               THEN responseObj.description ELSE ""],
           self)

\* successCodes with the preference reversed: 204, then 202, 201 and 200.
successCodesReversed(operation) ==
  IF "responses" \in DOMAIN operation
  THEN SelectSeq(<< "204", "202", "201", "200" >>, LAMBDA c : c \in DOMAIN operation.responses)
  ELSE << >>

\* The first of 200, 201, 202 and 204 that the operation declares (lines 586-590).
successCodes(operation) ==
  IF "responses" \in DOMAIN operation
  THEN SelectSeq(<< "200", "201", "202", "204" >>, LAMBDA c : c \in DOMAIN operation.responses)
  ELSE << >>

extractResponseType(operation, self) ==
  IF successCodes(operation) = << >> THEN Res(Null, self)
  ELSE responseType(resolveResponse(operation.responses[Head(successCodes(operation))], self),
                    self)

\* operation.summary || operation.description || ''
baseDescription(operation) ==
  IF TruthyString(operation, "summary") THEN operation.summary
  ELSE IF TruthyString(operation, "description") THEN operation.description
  ELSE ""

\* The codes of Object.entries(operation.responses || {}) beginning with 4 or 5.
errorCodes(operation) ==
  IF "responses" \in DOMAIN operation
  THEN SelectSeq(EntriesOrder(DOMAIN operation.responses),
                 LAMBDA code : startsWith(code, "4") \/ startsWith(code, "5"))
  ELSE << >>

\* Lines 552-555: `${code}: ${description}`.
errorLine(code, responseObj) ==
  code \o ": " \o (IF responseObj # Null /\ TruthyString(responseObj, "description")
                   THEN responseObj.description ELSE "")

\* Lines 546-560.
buildDescription(operation, self) ==
  IF Len(errorCodes(operation)) > 0
  THEN baseDescription(operation) \o "\nError Responses:\n"
       \o join([i \in 1..Len(errorCodes(operation)) |->
                  errorLine(errorCodes(operation)[i],
                            resolveResponse(operation.responses[errorCodes(operation)[i]], self))],
               "\n")
  ELSE baseDescription(operation)

\* Lines 576-581: the NewToolMethod.
toolMethod(operation, description, returnSchema, inputSchema) ==
  IF inputSchema.self.threw THEN Res(Null, inputSchema.self)
  ELSE Res([name |-> operation.operationId,
            description |-> description,
            inputSchema |-> inputSchema.val]
           @@ Opt(returnSchema # Null, [returnSchema |-> returnSchema]),
           inputSchema.self)

\* Lines 565-581, `returnSchema` being what extractResponseType returned.
compileInput(operation, acc, returnSchema) ==
  IF returnSchema.self.threw THEN Res(Null, returnSchema.self)
  ELSE toolMethod(operation, buildDescription(operation, acc.self), returnSchema.val,
                  finishObjectSchema([acc EXCEPT !.self = returnSchema.self]))

\* Lines 546-581, `acc` being the parameters and the request body.
compileOutput(operation, acc) ==
  IF acc.self.threw THEN Res(Null, acc.self)
  ELSE compileInput(operation, acc, extractResponseType(operation, acc.self))

\* convertOperationToMCPMethod naming an operation that has no identifier
\* after its path instead of skipping it.
convertOperationToMCPMethodFallbackName(operation, method, path, self) ==
  compileOutput(IF TruthyString(operation, "operationId") THEN operation
                ELSE ("operationId" :> path) @@ operation,
                handleRequestBodyMCP(operation, startParameters(operation, self)))

\* Returns the NewToolMethod, or Null.
convertOperationToMCPMethod(operation, method, path, self) ==
  IF ~ TruthyString(operation, "operationId")
  THEN Res(Null, Log(self, [kind |-> "Operation without operationId",
                            method |-> method, path |-> path]))
  ELSE compileOutput(operation,
                     handleRequestBodyMCP(operation, startParameters(operation, self)))

MaxNameLength == 64

SuffixReserve == 5

SuffixWidth == 4

\* generateUniqueSuffix without `this.nameCounter += 1` taking effect.
generateUniqueSuffixStale(self) ==
  Res(padStart(ToString(self.nameCounter + 1), SuffixWidth), self)

\* Returns the suffix and the instance with its counter advanced.
generateUniqueSuffix(self) ==
  Res(padStart(ToString(self.nameCounter + 1), SuffixWidth),
      [self EXCEPT !.nameCounter = @ + 1])

\* Line 624: `${truncatedName}-${uniqueSuffix}`.
suffixedName(truncatedName, uniqueSuffix) ==
  Res(truncatedName \o "-" \o uniqueSuffix.val, uniqueSuffix.self)

ensureUniqueName(name, self) ==
  IF Len(name) <= MaxNameLength THEN Res(name, self)
  ELSE suffixedName(SubSeq(name, 1, MaxNameLength - SuffixReserve), generateUniqueSuffix(self))

getDescription(description, self) ==
  IF self.openApiSpec.info.title = "Notion API" THEN "Notion | " \o description
  ELSE description

----------------------------------------------------------------------------
(* The filter collaborator (src/openapi-mcp-server/types/filter-config):    *)
(* a predicate on the operation identifier and the path; an absent         *)
(* configuration includes everything.                                      *)

shouldIncludeOperation(operationId, path, filterConfig) ==
  filterConfig = Null \/ << operationId, path >> \notin filterConfig.excluded

----------------------------------------------------------------------------
(* ToolSetBuilder: the bodies of the three loops over the operations.  An  *)
(* entry is one (path, method, operation) of                               *)
(* Object.entries(paths) x Object.entries(pathItem), in iteration order.   *)

apiName == "API"

\* `{ ...operation, method, path }`
openApiEntry(entry) == [method |-> entry.method, path |-> entry.path] @@ entry.operation

\* Lines 285-293: tools[apiName].methods.push, openApiLookup and zip.
pushMethod(entry, locals, mcpMethod, self) ==
  [locals |-> [tools |-> Append(locals.tools, mcpMethod),
               openApiLookup |-> ((apiName \o "-" \o mcpMethod.name) :> openApiEntry(entry))
                                 @@ locals.openApiLookup,
               zip |-> ((apiName \o "-" \o mcpMethod.name)
                          :> [openApi |-> openApiEntry(entry), mcp |-> mcpMethod])
                       @@ locals.zip],
   self |-> self]

\* Lines 286-290: the method under its unique name and final description.
renamedMethod(entry, locals, mcpMethod, description, uniqueName) ==
  pushMethod(entry, locals,
             [mcpMethod EXCEPT !.name = uniqueName.val, !.description = description],
             uniqueName.self)

\* Lines 284-293, `m` being what convertOperationToMCPMethod returned.
registerMethod(entry, locals, m) ==
  IF m.self.threw \/ m.val = Null THEN [locals |-> locals, self |-> m.self]
  ELSE renamedMethod(entry, locals, m.val, getDescription(m.val.description, m.self),
                     ensureUniqueName(m.val.name, m.self))

\* convertToMCPTools starting its numbering anew in each call.
convertToMCPToolsBodyRenumbering(entry, locals, self) ==
  IF ~ isOperation(entry.method) THEN [locals |-> locals, self |-> self]
  ELSE IF TruthyString(entry.operation, "operationId")
          /\ ~ shouldIncludeOperation(entry.operation.operationId, entry.path, self.filterConfig)
  THEN [locals |-> locals, self |-> self]
  ELSE registerMethod(entry, locals,
         convertOperationToMCPMethod(entry.operation, entry.method, entry.path,
           [self EXCEPT !.nameCounter = IF locals.tools = << >> THEN 0 ELSE @]))

\* Lines 279-294.
convertToMCPToolsBody(entry, locals, self) ==
  IF ~ isOperation(entry.method) THEN [locals |-> locals, self |-> self]
  ELSE IF TruthyString(entry.operation, "operationId")
          /\ ~ shouldIncludeOperation(entry.operation.operationId, entry.path, self.filterConfig)
  THEN [locals |-> locals, self |-> self]
  ELSE registerMethod(entry, locals,
         convertOperationToMCPMethod(entry.operation, entry.method, entry.path, self))

\* tools.push(tool), unless the conversion raised.
pushTool(locals, tool, self) ==
  IF self.threw THEN [locals |-> locals, self |-> self]
  ELSE [locals |-> [locals EXCEPT !.tools = Append(@, tool)], self |-> self]

\* Lines 313-320, `parameters` being what convertOperationToJsonSchema returned.
openAITool(operation, locals, parameters) ==
  pushTool(locals,
           [type |-> "function",
            function |-> Opt("operationId" \in DOMAIN operation,
                             [name |-> operation.operationId])
                         @@ [description |-> getDescription(baseDescription(operation),
                                                            parameters.self),
                             parameters |-> parameters.val]],
           parameters.self)

\* Lines 311-322.
convertToOpenAIToolsBody(entry, locals, self) ==
  IF ~ isOperation(entry.method) THEN [locals |-> locals, self |-> self]
  ELSE openAITool(entry.operation, locals, convertOperationToJsonSchema(entry.operation, self))

\* Lines 340-345, `parameters` being what convertOperationToJsonSchema returned.
anthropicTool(operation, locals, parameters) ==
  pushTool(locals,
           Opt("operationId" \in DOMAIN operation, [name |-> operation.operationId])
           @@ [description |-> getDescription(baseDescription(operation), parameters.self),
               input_schema |-> parameters.val],
           parameters.self)

\* Lines 339-347.
convertToAnthropicToolsBody(entry, locals, self) ==
  IF ~ isOperation(entry.method) THEN [locals |-> locals, self |-> self]
  ELSE anthropicTool(entry.operation, locals, convertOperationToJsonSchema(entry.operation, self))

----------------------------------------------------------------------------
(* The documents and filter configurations the converter is run on. *)

MaxOps == 2

MaxCounter == 3

Inst == {1, 2}

RefTo(name) == "$ref" :> ("#/components/schemas/" \o name)

Ref(pointer) == "$ref" :> pointer

JsonContent(schema) == "application/json" :> [schema |-> schema]

Prefix59 == "retrieveTheCompleteListOfWorkspaceMembersAndTheirPermission"

LongId80 == Prefix59 \o "sForEveryTeamAndGroup"

LongId65 == Prefix59 \o "Guests"

CollidingId == Prefix59 \o "-0001"

ComponentSchemas ==
  [A |-> [type |-> "object",
          properties |-> [name |-> [type |-> "string"], peer |-> RefTo("B")],
          required |-> << "name" >>],
   B |-> [type |-> "object",
          properties |-> [peer |-> RefTo("A")],
          additionalProperties |-> Prim("false")],
   C |-> [type |-> "object",
          properties |-> [tags |-> [type |-> "array", items |-> RefTo("D")]],
          additionalProperties |-> Prim("true")],
   D |-> [type |-> "string", format |-> "binary", description |-> "upload"]]

Components ==
  [schemas |-> ComponentSchemas,
   parameters |-> [Shared |-> [name |-> "limit", description |-> "page size",
                               schema |-> [type |-> "integer", format |-> "int32"]]],
   responses |-> [NotFound |-> [description |-> "Not found"]]]

Definitions ==
  [Legacy |-> [type |-> "object", properties |-> [a |-> RefTo("C")]]]

GetPage ==
  [path |-> "/pages/{id}", method |-> "GET",
   operation |->
     [operationId |-> "getPage", summary |-> "Get a page",
      parameters |-> << [name |-> "id", required |-> TRUE, schema |-> [type |-> "string"]] >>,
      responses |->
        ("200" :> [description |-> "OK",
                   content |-> JsonContent([type |-> "object",
                                            properties |-> [title |-> [type |-> "string"]]])])
        @@ ("404" :> Ref("#/components/responses/NotFound"))]]

PathParameters ==
  [path |-> "/pages/{id}", method |-> "parameters", operation |-> Empty]

ListMembers ==
  [path |-> "/members", method |-> "post",
   operation |->
     [operationId |-> LongId80, description |-> "List members",
      parameters |-> << Ref("#/components/parameters/Shared") >>,
      requestBody |-> [content |-> JsonContent(RefTo("A"))],
      responses |->
        ("200" :> [description |-> "Members", content |-> JsonContent(RefTo("A"))])
        @@ ("500" :> [description |-> "Server error"])]]

ListGuests ==
  [path |-> "/guests", method |-> "put",
   operation |->
     [operationId |-> LongId65, summary |-> "Guests",
      requestBody |-> [content |-> JsonContent([type |-> "array", items |-> RefTo("C")])],
      responses |-> ("204" :> [description |-> "No content"])]]

UploadFile ==
  [path |-> "/files", method |-> "patch",
   operation |->
     [operationId |-> CollidingId, summary |-> "Upload",
      requestBody |->
        [content |->
           "multipart/form-data" :>
             [schema |-> [type |-> "object",
                          properties |-> [file |-> [type |-> "string", format |-> "binary"]],
                          required |-> << "file" >>]]],
      responses |-> ("201" :> [description |-> "Created",
                               content |-> ("image/png" :> Empty)])]]

Anonymous ==
  [path |-> "/anonymous", method |-> "delete",
   operation |-> [summary |-> "No identifier"]]

Legacy ==
  [path |-> "/legacy", method |-> "get",
   operation |->
     [operationId |-> "legacy",
      parameters |-> << [name |-> "next", description |-> "cursor", schema |-> RefTo("Gone")] >>,
      requestBody |->
        [content |-> JsonContent([type |-> "object",
                                  properties |-> [a |-> Ref("#/definitions/Legacy"),
                                                  peer |-> Ref("other.yaml#/X")],
                                  required |-> << "a" >>])],
      responses |->
        ("200" :> [description |-> "Legacy", content |-> JsonContent(Ref("#/definitions/Legacy"))])]]

Broken ==
  [path |-> "/broken", method |-> "post",
   operation |->
     [operationId |-> "broken",
      requestBody |->
        [content |-> JsonContent([type |-> "object",
                                  properties |-> [title |-> Prim("null")]])]]]

CreatePage ==
  [path |-> "/pages", method |-> "post",
   operation |->
     [operationId |-> "createPage", summary |-> "Create a page",
      requestBody |-> [content |-> JsonContent([type |-> "object", description |-> "any"])],
      responses |->
        ("201" :> [description |-> "Created", content |-> ("application/json" :> Empty)])
        @@ ("202" :> [description |-> "Accepted",
                      content |-> JsonContent([type |-> "array", items |-> RefTo("D")])])]]

Pool ==
  << GetPage, PathParameters, ListMembers, ListGuests, UploadFile, Anonymous, Legacy, Broken,
     CreatePage >>

\* The entries of Pool at the indices S, in the order of Pool.
Pick(S) == LET idx == SelectSeq([i \in 1..Len(Pool) |-> i], LAMBDA i : i \in S)
           IN  [k \in 1..Len(idx) |-> Pool[idx[k]]]

Paths == { Pick(S) : S \in { T \in SUBSET (1..Len(Pool)) : Cardinality(T) <= MaxOps } }

Titles == { "Notion API", "Petstore" }

Documents ==
  { [info |-> [title |-> t], paths |-> ps] : t \in Titles, ps \in Paths }
  \cup { [info |-> [title |-> t], paths |-> ps,
          components |-> Components, definitions |-> Definitions] : t \in Titles, ps \in Paths }

FilterConfigs ==
  { Null,
    [excluded |-> { << "getPage", "/pages/{id}" >> }],
    [excluded |-> { << LongId80, "/members" >> }] }

----------------------------------------------------------------------------
(* The state: the constructor's arguments, the fields of each instance,    *)
(* the console, and the entry point each instance is running with its      *)
(* loop position, its local variables and the values it has returned.      *)

VARIABLES openApiSpec, filterConfig, schemaCache, nameCounter, allComponentSchemas,
          diag, pc, cursor, locals, returned

vars == << openApiSpec, filterConfig, schemaCache, nameCounter, allComponentSchemas,
           diag, pc, cursor, locals, returned >>

EntryPoints == { "convertToMCPTools", "convertToOpenAITools", "convertToAnthropicTools" }

\* What a call left to its caller: Null before the first call, Raised after a
\* TypeError, [value |-> v] after `return v`.
Raised == [raised |-> TRUE]

\* The instance with its counter held in common by all instances.
SelfSharedCounter(i) ==
  [openApiSpec |-> openApiSpec, filterConfig |-> filterConfig,
   schemaCache |-> schemaCache[i], nameCounter |-> nameCounter[1] + nameCounter[2],
   allComponentSchemas |-> allComponentSchemas[i], diag |-> diag[i], threw |-> FALSE]

Self(i) ==
  [openApiSpec |-> openApiSpec, filterConfig |-> filterConfig,
   schemaCache |-> schemaCache[i], nameCounter |-> nameCounter[i],
   allComponentSchemas |-> allComponentSchemas[i], diag |-> diag[i], threw |-> FALSE]

\* The instance fields after a method has run.
Store(i, self) ==
  /\ schemaCache' = [schemaCache EXCEPT ![i] = self.schemaCache]
  /\ nameCounter' = [nameCounter EXCEPT ![i] = self.nameCounter]
  /\ allComponentSchemas' = [allComponentSchemas EXCEPT ![i] = self.allComponentSchemas]
  /\ diag' = [diag EXCEPT ![i] = self.diag]

Init ==
  /\ openApiSpec \in Documents
  /\ filterConfig \in FilterConfigs
  /\ schemaCache = [i \in Inst |-> Empty]
  /\ nameCounter = [i \in Inst |-> 0]
  /\ allComponentSchemas = [i \in Inst |-> Null]
  /\ diag = [i \in Inst |-> {}]
  /\ pc = [i \in Inst |-> "idle"]
  /\ cursor = [i \in Inst |-> 0]
  /\ locals = [i \in Inst |-> Empty]
  /\ returned = [i \in Inst |-> [e \in EntryPoints |-> Null]]

Fresh(i) ==
  /\ schemaCache[i] = Empty
  /\ nameCounter[i] = 0
  /\ allComponentSchemas[i] = Null
  /\ \A e \in EntryPoints : returned[i][e] = Null

\* An entry point is called: the converter is synchronous and single-threaded,
\* so no other call is running.  With `once`, the instance is a fresh one.
Call(i, entryPoint, once) ==
  /\ \A j \in Inst : pc[j] = "idle"
  /\ once => Fresh(i)
  /\ nameCounter[i] < MaxCounter
  /\ pc' = [pc EXCEPT ![i] = entryPoint]
  /\ cursor' = [cursor EXCEPT ![i] = 1]
  /\ locals' = [locals EXCEPT ![i] =
                  IF entryPoint = "convertToMCPTools"
                  THEN [tools |-> << >>, openApiLookup |-> Empty, zip |-> Empty]
                  ELSE [tools |-> << >>]]
  /\ UNCHANGED << openApiSpec, filterConfig, schemaCache, nameCounter,
                  allComponentSchemas, diag, returned >>

Body(entryPoint, entry, loc, self) ==
  IF entryPoint = "convertToMCPTools" THEN convertToMCPToolsBody(entry, loc, self)
  ELSE IF entryPoint = "convertToOpenAITools" THEN convertToOpenAIToolsBody(entry, loc, self)
  ELSE convertToAnthropicToolsBody(entry, loc, self)

\* What one iteration leaves: the instance fields, and either the next
\* position with the loop's variables or, after a TypeError, the end of the call.
Iterate(i, r) ==
  /\ Store(i, r.self)
  /\ IF r.self.threw
     THEN /\ pc' = [pc EXCEPT ![i] = "idle"]
          /\ cursor' = [cursor EXCEPT ![i] = 0]
          /\ locals' = [locals EXCEPT ![i] = Empty]
          /\ returned' = [returned EXCEPT ![i][pc[i]] = Raised]
     ELSE /\ cursor' = [cursor EXCEPT ![i] = @ + 1]
          /\ locals' = [locals EXCEPT ![i] = r.locals]
          /\ UNCHANGED << pc, returned >>

\* One iteration of the running entry point's loop; a TypeError ends the call.
Step(i) ==
  /\ pc[i] \in EntryPoints
  /\ cursor[i] <= Len(openApiSpec.paths)
  /\ Iterate(i, Body(pc[i], openApiSpec.paths[cursor[i]], locals[i], Self(i)))
  /\ UNCHANGED << openApiSpec, filterConfig >>

\* The value of the return statement (lines 298, 326, 351).
ReturnValue(entryPoint, loc) ==
  IF entryPoint = "convertToMCPTools"
  THEN [tools |-> (apiName :> [methods |-> loc.tools]),
        openApiLookup |-> loc.openApiLookup, zip |-> loc.zip]
  ELSE loc.tools

Return(i) ==
  /\ pc[i] \in EntryPoints
  /\ cursor[i] > Len(openApiSpec.paths)
  /\ returned' = [returned EXCEPT ![i][pc[i]] = [value |-> ReturnValue(pc[i], locals[i])]]
  /\ pc' = [pc EXCEPT ![i] = "idle"]
  /\ cursor' = [cursor EXCEPT ![i] = 0]
  /\ locals' = [locals EXCEPT ![i] = Empty]
  /\ UNCHANGED << openApiSpec, filterConfig, schemaCache, nameCounter,
                  allComponentSchemas, diag >>

\* One instance, whose entry points are called any number of times in any order.
Next ==
  \/ \E e \in EntryPoints : Call(1, e, FALSE)
  \/ Step(1)
  \/ Return(1)

Spec == Init /\ [][Next]_vars

\* Two instances of the same document and filter configuration, each fresh
\* when one of its entry points is called.
NextFresh ==
  \/ \E i \in Inst, e \in EntryPoints : Call(i, e, TRUE)
  \/ \E i \in Inst : Step(i)
  \/ \E i \in Inst : Return(i)

SpecFresh == Init /\ [][NextFresh]_vars

----------------------------------------------------------------------------
(* What a caller observes. *)

MCP == "convertToMCPTools"

OpenAI == "convertToOpenAITools"

Anthropic == "convertToAnthropicTools"

Completed(i, e) == "value" \in DOMAIN returned[i][e]

\* The tools of a completed call: the registry's ToolMethods, or the list.
ToolsOf(i, e) ==
  IF e = MCP THEN returned[i][e].value.tools[apiName].methods ELSE returned[i][e].value

\* The record of a tool that carries its name and description.
Head_(e, tool) == IF e = OpenAI THEN tool.function ELSE tool

\* The name of a tool as a sequence: empty when the name is undefined.
NameOf(e, tool) == IF "name" \in DOMAIN Head_(e, tool) THEN << Head_(e, tool).name >> ELSE << >>

NamesOf(e, tools) == [k \in 1..Len(tools) |-> NameOf(e, tools[k])]

IsOverLength(id) == Len(id) > 64

----------------------------------------------------------------------------
(* Claims about tool names. *)

\* C1 (as claimed): every tool name in every output (the registry's
\* ToolMethods, the function-call list and the tool-use list) has at most 64
\* characters.
C1_EveryNameWithinLimit ==
  \A i \in Inst, e \in EntryPoints :
    Completed(i, e) =>
      \A k \in 1..Len(ToolsOf(i, e)) :
        \A n \in { NameOf(e, ToolsOf(i, e)[k])[j] : j \in 1..Len(NameOf(e, ToolsOf(i, e)[k])) } :
          Len(n) <= 64

\* C2 (as claimed): the ToolMethods of one convertToMCPTools run have
\* pairwise distinct names, and the registry has exactly one lookup key
\* 'API-' + name per emitted ToolMethod.
C2_RegistryNamesDistinct ==
  \A i \in Inst :
    Completed(i, MCP) =>
      LET methods == ToolsOf(i, MCP)
          lookup == returned[i][MCP].value.openApiLookup
      IN  /\ \A j, k \in 1..Len(methods) : j # k => methods[j].name # methods[k].name
          /\ Cardinality(DOMAIN lookup) = Len(methods)
          /\ DOMAIN returned[i][MCP].value.zip = DOMAIN lookup

\* The operations convertToMCPTools compiles, in document order.
CompiledEntries(entries) ==
  SelectSeq(entries,
            LAMBDA en : /\ en.method \in {"get", "post", "put", "delete", "patch",
                                          "GET", "POST", "PUT", "DELETE", "PATCH"}
                        /\ "operationId" \in DOMAIN en.operation
                        /\ en.operation.operationId # ""
                        /\ (filterConfig = Null
                            \/ << en.operation.operationId, en.path >> \notin filterConfig.excluded))

OverLengthUpTo(entries, k) ==
  Cardinality({ j \in 1..k : IsOverLength(entries[j].operation.operationId) })

Suffixes == << "-0001", "-0002", "-0003", "-0004" >>

\* The names the claim prescribes for a fresh instance.
PrescribedNames(entries) ==
  [k \in 1..Len(entries) |->
     LET id == entries[k].operation.operationId
     IN  IF IsOverLength(id)
         THEN SubSeq(id, 1, 59) \o Suffixes[OverLengthUpTo(entries, k)]
         ELSE id]

\* C3: on a fresh instance the k-th over-length identifier processed is
\* renamed to its first 59 characters followed by '-000k' ('-0001' for the
\* first, '-0002' for the second); an identifier of at most 64 characters is
\* the tool name unchanged and consumes no suffix number.
C3_FreshInstanceNaming ==
  \A i \in Inst :
    /\ pc[i] = MCP =>
         LET done == CompiledEntries(SubSeq(openApiSpec.paths, 1, cursor[i] - 1))
         IN  /\ [k \in 1..Len(locals[i].tools) |-> locals[i].tools[k].name] = PrescribedNames(done)
             /\ nameCounter[i] = OverLengthUpTo(done, Len(done))
    /\ Completed(i, MCP) =>
         LET done == CompiledEntries(openApiSpec.paths)
         IN  /\ [k \in 1..Len(ToolsOf(i, MCP)) |-> ToolsOf(i, MCP)[k].name] = PrescribedNames(done)
             /\ nameCounter[i] = OverLengthUpTo(done, Len(done))

\* A fresh instance has renamed two over-length identifiers, after leaving a
\* short one unchanged or not.
C3_Witness ==
  \E i \in Inst :
    /\ Completed(i, MCP)
    /\ Len(ToolsOf(i, MCP)) = 2
    /\ ToolsOf(i, MCP)[1].name = Prefix59 \o "-0001"
    /\ ToolsOf(i, MCP)[2].name = Prefix59 \o "-0002"
    /\ nameCounter[i] = 2

----------------------------------------------------------------------------
(* Claims about the selective $defs. *)

\* A schema as its holder reads it: every cached object in place.
RECURSIVE Expand(_, _)
Expand(v, cache) ==
  IF IsHeapRef(v) THEN Expand(Root(v, cache), cache)
  ELSE IF IsPrim(v) THEN v
  ELSE [k \in DOMAIN v |->
          IF k \in {"properties", "$defs"}
          THEN [n \in DOMAIN v[k] |-> Expand(v[k][n], cache)]
          ELSE IF k \in {"items", "additionalProperties"} THEN Expand(v[k], cache)
          ELSE IF k \in {"oneOf", "anyOf", "allOf"}
          THEN [j \in 1..Len(v[k]) |-> Expand(v[k][j], cache)]
          ELSE v[k]]

\* The names <name> of the local pointers '#/$defs/<name>' anywhere in a schema.
RECURSIVE LocalPointers(_)
LocalPointers(v) ==
  IF IsPrim(v) THEN {}
  ELSE (IF "$ref" \in DOMAIN v /\ Len(v["$ref"]) >= 8 /\ SubSeq(v["$ref"], 1, 8) = "#/$defs/"
        THEN { SubSeq(v["$ref"], 9, Len(v["$ref"])) } ELSE {})
       \cup UNION { UNION { LocalPointers(v[k][n]) : n \in DOMAIN v[k] } :
                    k \in DOMAIN v \cap {"properties", "$defs"} }
       \cup UNION { LocalPointers(v[k]) : k \in DOMAIN v \cap {"items", "additionalProperties"} }
       \cup UNION { UNION { LocalPointers(v[k][j]) : j \in 1..Len(v[k]) } :
                    k \in DOMAIN v \cap {"oneOf", "anyOf", "allOf"} }

\* The $defs map of a schema, empty when it has none.
DefsOf(schema) == IF "$defs" \in DOMAIN schema THEN schema["$defs"] ELSE Empty

\* The schema without its $defs map.
BodyOf(schema) == [k \in DOMAIN schema \ {"$defs"} |-> schema[k]]

\* The names reachable from the pointers of the schema's body through the
\* bodies of its $defs entries.
RECURSIVE ReachableFrom(_, _)
ReachableFrom(schema, names) ==
  LET more == names \cup UNION { LocalPointers(DefsOf(schema)[n]) :
                                 n \in names \cap DOMAIN DefsOf(schema) }
  IN  IF more = names THEN names ELSE ReachableFrom(schema, more)

\* The inputSchema and returnSchema of every ToolMethod instance i returned.
CompiledSchemas(i) ==
  IF ~ Completed(i, MCP) THEN {}
  ELSE UNION { { Expand(ToolsOf(i, MCP)[k][f], schemaCache[i]) :
                 f \in DOMAIN ToolsOf(i, MCP)[k] \cap {"inputSchema", "returnSchema"} } :
               k \in 1..Len(ToolsOf(i, MCP)) }

\* The `parameters` / `input_schema` of every tool of the two lists.
ListSchemas(i) ==
  UNION { IF ~ Completed(i, e) THEN {}
          ELSE { Expand(IF e = OpenAI THEN ToolsOf(i, e)[k].function.parameters
                        ELSE ToolsOf(i, e)[k].input_schema, schemaCache[i]) :
                 k \in 1..Len(ToolsOf(i, e)) } :
          e \in {OpenAI, Anthropic} }

ComponentNames ==
  IF "components" \in DOMAIN openApiSpec /\ "schemas" \in DOMAIN openApiSpec.components
  THEN DOMAIN openApiSpec.components.schemas ELSE {}

\* C4 (as claimed): every local pointer anywhere inside a compiled
\* inputSchema or returnSchema, the bodies of its $defs entries included,
\* names a key of that schema's $defs map.
C4_EveryPointerInDefs ==
  \A i \in Inst : \A schema \in CompiledSchemas(i) :
    LocalPointers(schema) \subseteq DOMAIN DefsOf(schema)

\* C4 (amended): every local pointer anywhere inside a compiled inputSchema
\* or returnSchema, the bodies of its $defs entries included, that names a
\* schema of the document's components names a key of that schema's $defs map.
C4_EveryComponentPointerInDefs ==
  \A i \in Inst : \A schema \in CompiledSchemas(i) :
    LocalPointers(schema) \cap ComponentNames \subseteq DOMAIN DefsOf(schema)

\* A compiled schema whose $defs hold a component that points to another.
C4_Witness ==
  \E i \in Inst : \E schema \in CompiledSchemas(i) :
    \E n \in DOMAIN DefsOf(schema) :
      LocalPointers(DefsOf(schema)[n]) \cap ComponentNames # {}

\* C5: every key of the $defs map of a compiled inputSchema or returnSchema
\* is reachable from a local pointer of the schema, directly or through the
\* bodies of other included components.
C5_EveryDefReachable ==
  \A i \in Inst : \A schema \in CompiledSchemas(i) :
    DOMAIN DefsOf(schema) \subseteq ReachableFrom(schema, LocalPointers(BodyOf(schema)))

\* A compiled schema that leaves out a component of the document and holds
\* one that only another component points to.
C5_Witness ==
  \E i \in Inst : \E schema \in CompiledSchemas(i) :
    /\ DOMAIN DefsOf(schema) \ LocalPointers(BodyOf(schema)) # {}
    /\ ComponentNames \ DOMAIN DefsOf(schema) # {}

\* C6: no compiled inputSchema or returnSchema, and no schema of the two
\* lists, carries a $defs key whose value is an empty map.
C6_NoEmptyDefs ==
  \A i \in Inst : \A schema \in CompiledSchemas(i) \cup ListSchemas(i) :
    "$defs" \in DOMAIN schema => DOMAIN schema["$defs"] # {}

\* A compiled schema with a local pointer and no component to attach: the
\* closure is not empty, the map would be.
C6_Witness ==
  \E i \in Inst : \E schema \in CompiledSchemas(i) :
    /\ LocalPointers(schema) # {}
    /\ "$defs" \notin DOMAIN schema

----------------------------------------------------------------------------
(* Claims about the three projections. *)

AllCompleted(i) == \A e \in EntryPoints : Completed(i, e)

\* The operations the two lists are built from, in document order.
OperationEntries ==
  SelectSeq(openApiSpec.paths,
            LAMBDA en : en.method \in {"get", "post", "put", "delete", "patch",
                                       "GET", "POST", "PUT", "DELETE", "PATCH"})

\* The ToolMethods the registry pairs with the operation of an entry.
MethodsFor(i, en) ==
  LET zip == returned[i][MCP].value.zip
  IN  { zip[key].mcp : key \in { k \in DOMAIN zip : /\ zip[k].openApi.path = en.path
                                                     /\ zip[k].openApi.method = en.method } }

\* C7 (as claimed): the names of the function-call list, of the tool-use
\* list and of the registry's ToolMethods are the same sequence.
C7_SameNames ==
  \A i \in Inst :
    AllCompleted(i) =>
      /\ NamesOf(OpenAI, ToolsOf(i, OpenAI)) = NamesOf(MCP, ToolsOf(i, MCP))
      /\ NamesOf(Anthropic, ToolsOf(i, Anthropic)) = NamesOf(MCP, ToolsOf(i, MCP))

\* C8 (as claimed): for every operation the description in the
\* function-call list and in the tool-use list is the description of the
\* registry's ToolMethod for that operation.
C8_SameDescriptions ==
  \A i \in Inst :
    AllCompleted(i) =>
      \A k \in 1..Len(OperationEntries) : \A m \in MethodsFor(i, OperationEntries[k]) :
        /\ ToolsOf(i, OpenAI)[k].function.description = m.description
        /\ ToolsOf(i, Anthropic)[k].description = m.description

\* C9 (as claimed): for every operation the `parameters` of the
\* function-call list and the `input_schema` of the tool-use list equal the
\* inputSchema of the registry's ToolMethod for that operation.
C9_SameInputSchemas ==
  \A i \in Inst :
    AllCompleted(i) =>
      \A k \in 1..Len(OperationEntries) : \A m \in MethodsFor(i, OperationEntries[k]) :
        /\ Expand(ToolsOf(i, OpenAI)[k].function.parameters, schemaCache[i])
             = Expand(m.inputSchema, schemaCache[i])
        /\ Expand(ToolsOf(i, Anthropic)[k].input_schema, schemaCache[i])
             = Expand(m.inputSchema, schemaCache[i])

\* What a call left to its caller, every schema read through the cache.
Observed(i, e) ==
  IF ~ Completed(i, e) THEN returned[i][e]
  ELSE IF e = MCP
  THEN LET expandMethod(m) ==
             [f \in DOMAIN m |-> IF f \in {"inputSchema", "returnSchema"}
                                 THEN Expand(m[f], schemaCache[i]) ELSE m[f]]
           v == returned[i][e].value
       IN  [tools |-> [k \in 1..Len(ToolsOf(i, e)) |-> expandMethod(ToolsOf(i, e)[k])],
            openApiLookup |-> v.openApiLookup,
            zip |-> [key \in DOMAIN v.zip |->
                       [openApi |-> v.zip[key].openApi, mcp |-> expandMethod(v.zip[key].mcp)]]]
  ELSE [tools |-> [k \in 1..Len(ToolsOf(i, e)) |->
                     IF e = OpenAI
                     THEN [ToolsOf(i, e)[k] EXCEPT !.function.parameters = Expand(@, schemaCache[i])]
                     ELSE [ToolsOf(i, e)[k] EXCEPT !.input_schema = Expand(@, schemaCache[i])]]]

----------------------------------------------------------------------------
(* Claims about failures. *)

\* C11 (as claimed): conversion never raises: whatever the document (dangling,
\* external or cyclic references, a boolean or null where a schema is
\* expected, unsupported body content types), every call of an entry point
\* completes and returns a result.
C11_NeverRaises ==
  \A i \in Inst, e \in EntryPoints : returned[i][e] # Raised

----------------------------------------------------------------------------
(* Claims about cyclic components. *)

\* The schema nodes directly under a node: its properties, items,
\* additionalProperties and composition branches.
Children(v) ==
  IF IsPrim(v) THEN << >>
  ELSE (IF "properties" \in DOMAIN v THEN propertyValues(v.properties) ELSE << >>)
       \o (IF "items" \in DOMAIN v
           THEN (IF "tuple" \in DOMAIN v.items THEN v.items.tuple ELSE << v.items >>)
           ELSE << >>)
       \o (IF "additionalProperties" \in DOMAIN v THEN << v.additionalProperties >> ELSE << >>)
       \o (IF "oneOf" \in DOMAIN v THEN v.oneOf ELSE << >>)
       \o (IF "anyOf" \in DOMAIN v THEN v.anyOf ELSE << >>)
       \o (IF "allOf" \in DOMAIN v THEN v.allOf ELSE << >>)

RECURSIVE SumOver(_, _)
SumOver(counts, k) == IF k = 0 THEN 0 ELSE counts[k] + SumOver(counts, k - 1)

\* How many nodes of a schema are the pointer `pointer`.
RECURSIVE RefCount(_, _)
RefCount(v, pointer) ==
  (IF ~ IsPrim(v) /\ "$ref" \in DOMAIN v /\ v["$ref"] = pointer THEN 1 ELSE 0)
  + SumOver([k \in 1..Len(Children(v)) |-> RefCount(Children(v)[k], pointer)],
            Len(Children(v)))

\* How many nodes a schema has.
RECURSIVE NodeCount(_)
NodeCount(v) ==
  1 + SumOver([k \in 1..Len(Children(v)) |-> NodeCount(Children(v)[k])], Len(Children(v)))

\* The ToolMethods instance i has compiled: those of the running
\* convertToMCPTools call, else those of the last completed one.
MethodsSoFar(i) ==
  IF pc[i] = MCP THEN locals[i].tools
  ELSE IF Completed(i, MCP) THEN ToolsOf(i, MCP)
  ELSE << >>

\* Their inputSchema and returnSchema, every cached object in place.
SchemasSoFar(i) ==
  UNION { { Expand(MethodsSoFar(i)[k][f], schemaCache[i]) :
            f \in DOMAIN MethodsSoFar(i)[k] \cap {"inputSchema", "returnSchema"} } :
          k \in 1..Len(MethodsSoFar(i)) }

\* x and y are components of the document each of which has exactly one
\* reference to the other.
Cyclic(x, y) ==
  /\ x # y
  /\ {x, y} \subseteq ComponentNames
  /\ RefCount(openApiSpec.components.schemas[x], "#/components/schemas/" \o y) = 1
  /\ RefCount(openApiSpec.components.schemas[y], "#/components/schemas/" \o x) = 1

\* C12: when component A references component B and B references A, an
\* operation whose schema references A is compiled, its $defs contain both A
\* and B, the body of A contains exactly one pointer to B and the body of B
\* exactly one pointer to A, and neither body is expanded in the other.
C12_CycleKeptAsPointers ==
  \A i \in Inst : \A schema \in SchemasSoFar(i) :
    \A x \in LocalPointers(BodyOf(schema)) : \A y \in ComponentNames :
      Cyclic(x, y) =>
        /\ {x, y} \subseteq DOMAIN DefsOf(schema)
        /\ RefCount(DefsOf(schema)[x], "#/$defs/" \o y) = 1
        /\ RefCount(DefsOf(schema)[y], "#/$defs/" \o x) = 1
        /\ NodeCount(DefsOf(schema)[x]) = NodeCount(openApiSpec.components.schemas[x])
        /\ NodeCount(DefsOf(schema)[y]) = NodeCount(openApiSpec.components.schemas[y])

\* An operation whose body and response reference a component of a cycle has
\* been compiled.
C12_Witness ==
  \E i \in Inst : \E schema \in SchemasSoFar(i) :
    \E x \in LocalPointers(BodyOf(schema)) : \E y \in ComponentNames :
      Cyclic(x, y) /\ {x, y} \subseteq DOMAIN DefsOf(schema)

----------------------------------------------------------------------------
(* Claims about operations without an identifier. *)

\* The operations of the document that have no identifier.
IsAnonymous(en) ==
  /\ en.method \in {"get", "post", "put", "delete", "patch",
                    "GET", "POST", "PUT", "DELETE", "PATCH"}
  /\ ~ TruthyString(en.operation, "operationId")

\* A newly constructed instance for a document (lines 22-30).
FreshSelf(document) ==
  [openApiSpec |-> document, filterConfig |-> filterConfig,
   schemaCache |-> Empty, nameCounter |-> 0,
   allComponentSchemas |-> Null, diag |-> {}, threw |-> FALSE]

\* convertToMCPTools run from its first iteration to its last, or to the
\* iteration that raised.
RECURSIVE RunMCP(_, _)
RunMCP(entries, r) ==
  IF entries = << >> \/ r.self.threw THEN r
  ELSE RunMCP(Tail(entries), convertToMCPToolsBody(Head(entries), r.locals, r.self))

\* The registry a fresh instance returns for the document without its
\* operations that have no identifier.
WithoutAnonymous ==
  RunMCP(SelectSeq(openApiSpec.paths, LAMBDA en : ~ IsAnonymous(en)),
         [locals |-> [tools |-> << >>, openApiLookup |-> Empty, zip |-> Empty],
          self |-> FreshSelf([openApiSpec EXCEPT !.paths =
                                SelectSeq(openApiSpec.paths, LAMBDA en : ~ IsAnonymous(en))])])

\* A ToolMethod with its schemas read through the cache.
ExpandMethod(m, cache) ==
  [f \in DOMAIN m |-> IF f \in {"inputSchema", "returnSchema"} THEN Expand(m[f], cache) ELSE m[f]]

\* The loop variables of convertToMCPTools as the caller reads them.
ObservedRegistry(loc, cache) ==
  [tools |-> [k \in 1..Len(loc.tools) |-> ExpandMethod(loc.tools[k], cache)],
   openApiLookup |-> loc.openApiLookup,
   zip |-> [key \in DOMAIN loc.zip |->
              [openApi |-> loc.zip[key].openApi, mcp |-> ExpandMethod(loc.zip[key].mcp, cache)]]]

\* C13: an operation that has no identifier produces no ToolMethod and no
\* registry key, a diagnostic is emitted for it, and every other operation
\* of the document is compiled exactly as if that operation were not there:
\* a fresh instance returns the registry it returns for the document without
\* it (or raises as it does there).
C13_AnonymousSkipped ==
  \A i \in Inst :
    /\ returned[i][MCP] = Raised => WithoutAnonymous.self.threw
    /\ Completed(i, MCP) =>
         /\ ~ WithoutAnonymous.self.threw
         /\ Observed(i, MCP)
              = ObservedRegistry(WithoutAnonymous.locals, WithoutAnonymous.self.schemaCache)
         /\ \A k \in 1..Len(openApiSpec.paths) :
              IsAnonymous(openApiSpec.paths[k]) =>
                /\ MethodsFor(i, openApiSpec.paths[k]) = {}
                /\ [kind |-> "Operation without operationId",
                    method |-> openApiSpec.paths[k].method,
                    path |-> openApiSpec.paths[k].path] \in diag[i]

\* A registry returned for a document with an operation that has no
\* identifier and one that has.
C13_Witness ==
  \E i \in Inst :
    /\ Completed(i, MCP)
    /\ Len(ToolsOf(i, MCP)) = 1
    /\ \E k \in 1..Len(openApiSpec.paths) : IsAnonymous(openApiSpec.paths[k])

----------------------------------------------------------------------------
(* The schema converter and the reference resolver called on their own: a  *)
(* newly constructed instance is given a schema node or a pointer,         *)
(* `locals` holding the arguments of the call and `returned` what it       *)
(* returned.                                                               *)

\* An optional member: absent, or present with one of the values.
Optional(key, values) == { Empty } \cup { key :> v : v \in values }

ScalarNodes ==
  { [type |-> "string"] @@ f @@ d :
      f \in Optional("format", {"binary", "int32"}),
      d \in Optional("description", {"", "upload"}) }

ObjectNodes ==
  { [properties |-> [a |-> [type |-> "string"]]] @@ t @@ ap :
      t \in Optional("type", {"object", "string"}),
      ap \in Optional("additionalProperties",
                      {Prim("true"), Prim("false"), [type |-> "integer", format |-> "int32"]}) }

ElementNodes ==
  { [type |-> "string"], [type |-> "integer"], [type |-> "boolean", description |-> "flag"] }

ArrayNodes ==
  { [type |-> "array", items |-> s] : s \in ElementNodes }
  \cup { [type |-> "array", items |-> [tuple |-> << s, t >>]] :
           s \in ElementNodes, t \in ElementNodes }

CompositionNodes ==
  { key :> << s, t >> : key \in {"oneOf", "anyOf", "allOf"},
                        s \in ElementNodes, t \in ElementNodes }

Pointers ==
  { "#/components/schemas/A", "#/components/schemas/D", "#/components/schemas/Gone",
    "#/components/parameters/Shared", "#/definitions/Legacy", "#/definitions/Gone",
    "#/nowhere/X", "other.yaml#/X" }

ReferenceNodes ==
  { Ref(p) @@ d : p \in Pointers, d \in Optional("description", {"see"}) }

SchemaNodes ==
  ScalarNodes \cup ObjectNodes \cup ArrayNodes \cup CompositionNodes \cup ReferenceNodes

UnitDocuments ==
  { [info |-> [title |-> "Petstore"], paths |-> << >>],
    [info |-> [title |-> "Petstore"], paths |-> << >>,
     components |-> Components, definitions |-> Definitions] }

\* Parameters: two named `id` (one in the path, one in a header), both
\* required, and an optional one.
UnitParameters ==
  { [name |-> "id", in |-> "path", required |-> TRUE, schema |-> [type |-> "string"]],
    [name |-> "id", in |-> "header", required |-> TRUE, schema |-> [type |-> "integer"]],
    [name |-> "limit", in |-> "query", schema |-> [type |-> "integer"]] }

UnitParameterLists ==
  { << >> } \cup { << p >> : p \in UnitParameters }
  \cup { << p, q >> : p \in UnitParameters, q \in UnitParameters }

\* Object bodies whose `required` is absent, empty, names a property that a
\* parameter is named after, or names a property that is not declared.
UnitBodySchemas ==
  { [type |-> "object",
     properties |-> [id |-> [type |-> "string"], title |-> [type |-> "string"]]] @@ r :
      r \in Optional("required", { << >>, << "id" >>, << "title", "ghost" >> }) }

UnitBodies ==
  { Empty }
  \cup { [requestBody |-> [content |-> (mediaType :> [schema |-> schema])]] :
           mediaType \in {"application/json", "multipart/form-data"},
           schema \in UnitBodySchemas }
  \cup { [requestBody |-> [content |-> JsonContent([type |-> "array",
                                                     items |-> [type |-> "string"]])]] }

UnitOperations ==
  { [operationId |-> "updatePage", summary |-> "Update a page"]
    @@ Opt(params # << >>, [parameters |-> params]) @@ body :
      params \in UnitParameterLists, body \in UnitBodies }

UnitMethods ==
  { "convertOpenApiSchemaToJsonSchema", "internalResolveRef", "resolveParameter",
    "convertOperationToMCPMethod" }

InitUnit ==
  /\ openApiSpec \in UnitDocuments
  /\ filterConfig = Null
  /\ schemaCache = [i \in Inst |-> Empty]
  /\ nameCounter = [i \in Inst |-> 0]
  /\ allComponentSchemas = [i \in Inst |-> Null]
  /\ diag = [i \in Inst |-> {}]
  /\ pc = [i \in Inst |-> "idle"]
  /\ cursor = [i \in Inst |-> 0]
  /\ locals = [i \in Inst |-> Empty]
  /\ returned = [i \in Inst |-> [m \in UnitMethods |-> Null]]

\* The call `method(arguments)` has returned `result` and left the instance
\* as `self`.
Called(method, arguments, result, self) ==
  /\ Store(1, self)
  /\ locals' = [locals EXCEPT ![1] = arguments]
  /\ returned' = [returned EXCEPT ![1] = [m \in UnitMethods |->
                                            IF m = method THEN result ELSE Null]]
  /\ UNCHANGED << openApiSpec, filterConfig, pc, cursor >>

\* What convertOpenApiSchemaToJsonSchema left to its caller.
Converted(r) ==
  IF r.self.threw THEN Raised ELSE [value |-> r.val, resolvedRefs |-> r.resolvedRefs]

\* new OpenAPIToMCPConverter(openApiSpec)
\*   .convertOpenApiSchemaToJsonSchema(schema, new Set(), resolveRefs)
Convert(schema, resolveRefs) ==
  Called("convertOpenApiSchemaToJsonSchema",
         [schema |-> schema, resolveRefs |-> resolveRefs],
         Converted(convertOpenApiSchemaToJsonSchema(schema, {}, resolveRefs,
                                                    FreshSelf(openApiSpec))),
         convertOpenApiSchemaToJsonSchema(schema, {}, resolveRefs, FreshSelf(openApiSpec)).self)

\* new OpenAPIToMCPConverter(openApiSpec).internalResolveRef(ref, resolvedRefs)
Resolve(ref, resolvedRefs) ==
  Called("internalResolveRef",
         [ref |-> ref, resolvedRefs |-> resolvedRefs],
         [value |-> internalResolveRef(ref, resolvedRefs, FreshSelf(openApiSpec)).val,
          resolvedRefs |->
            internalResolveRef(ref, resolvedRefs, FreshSelf(openApiSpec)).resolvedRefs],
         FreshSelf(openApiSpec))

\* new OpenAPIToMCPConverter(openApiSpec).resolveParameter(param)
ResolveParameter(param) ==
  Called("resolveParameter", [param |-> param],
         [value |-> resolveParameter(param, FreshSelf(openApiSpec))],
         FreshSelf(openApiSpec))

\* What convertOperationToMCPMethod left to its caller.
Compiled(r) == IF r.self.threw THEN Raised ELSE [value |-> r.val]

\* new OpenAPIToMCPConverter(openApiSpec)
\*   .convertOperationToMCPMethod(operation, 'patch', '/pages/{id}')
Compile(operation) ==
  Called("convertOperationToMCPMethod", [operation |-> operation],
         Compiled(convertOperationToMCPMethod(operation, "patch", "/pages/{id}",
                                              FreshSelf(openApiSpec))),
         convertOperationToMCPMethod(operation, "patch", "/pages/{id}",
                                     FreshSelf(openApiSpec)).self)

MaxVisited == 1

NextUnit ==
  \/ \E schema \in SchemaNodes, resolveRefs \in BOOLEAN : Convert(schema, resolveRefs)
  \/ \E ref \in Pointers :
       \E resolvedRefs \in { S \in SUBSET Pointers : Cardinality(S) <= MaxVisited } :
         Resolve(ref, resolvedRefs)
  \/ \E ref \in Pointers : ResolveParameter(Ref(ref))
  \/ \E operation \in UnitOperations : Compile(operation)

SpecUnit == InitUnit /\ [][NextUnit]_vars

----------------------------------------------------------------------------
(* Claims about the conversion of one schema node. *)

ConvertMethod == "convertOpenApiSchemaToJsonSchema"

\* The last call was of the converter and returned a node.
HasConverted == "value" \in DOMAIN returned[1][ConvertMethod]

\* The node it was given and the node it returned.
GivenNode == locals[1].schema

ReturnedNode == returned[1][ConvertMethod].value

\* C14 (as claimed): for every schema node given to the converter,
\* `additionalProperties: true` yields an output node without an
\* additionalProperties key and `additionalProperties: false` an output node
\* whose additionalProperties is exactly false.
C14_AdditionalPropertiesOfEveryNode ==
  (HasConverted /\ "additionalProperties" \in DOMAIN GivenNode) =>
    /\ GivenNode.additionalProperties = Prim("true") =>
         "additionalProperties" \notin DOMAIN ReturnedNode
    /\ GivenNode.additionalProperties = Prim("false") =>
         /\ "additionalProperties" \in DOMAIN ReturnedNode
         /\ ReturnedNode.additionalProperties = Prim("false")

\* C14 (amended): for every schema node given to the converter,
\* `additionalProperties: true` yields an output node without an
\* additionalProperties key, and for every node of type object
\* `additionalProperties: false` yields an output node whose
\* additionalProperties is exactly false.
C14_AdditionalPropertiesOfObjects ==
  (HasConverted /\ "additionalProperties" \in DOMAIN GivenNode) =>
    /\ GivenNode.additionalProperties = Prim("true") =>
         "additionalProperties" \notin DOMAIN ReturnedNode
    /\ (GivenNode.additionalProperties = Prim("false") /\ IsType(GivenNode, "object")) =>
         /\ "additionalProperties" \in DOMAIN ReturnedNode
         /\ ReturnedNode.additionalProperties = Prim("false")

\* An object node with `additionalProperties: false` has been converted and
\* carries its properties.
C14_Witness ==
  /\ HasConverted
  /\ IsType(GivenNode, "object")
  /\ "additionalProperties" \in DOMAIN GivenNode
  /\ GivenNode.additionalProperties = Prim("false")
  /\ "properties" \in DOMAIN ReturnedNode
  /\ ReturnedNode.additionalProperties = Prim("false")

\* t occurs in s.
Contains(s, t) ==
  \E k \in 0..(Len(s) - Len(t)) : SubSeq(s, k + 1, k + Len(t)) = t

FilePathNote == "absolute paths to local files"

\* The last call converted a concrete node: one that is not a reference.
HasConvertedConcrete == HasConverted /\ "$ref" \notin DOMAIN GivenNode

IsBinary(node) == "format" \in DOMAIN node /\ node.format = "binary"

\* What the claims say of a node of `format: binary`.
BinaryRewritten ==
  /\ "format" \in DOMAIN ReturnedNode
  /\ ReturnedNode.format = "uri-reference"
  /\ "description" \in DOMAIN ReturnedNode
  /\ Contains(ReturnedNode.description, FilePathNote)
  /\ "description" \in DOMAIN GivenNode =>
       /\ startsWith(ReturnedNode.description, GivenNode.description)
       /\ Len(ReturnedNode.description) >= Len(GivenNode.description) + Len(FilePathNote)

\* C15 (as claimed): for every concrete schema node, `format: binary`
\* converts to `format: uri-reference` with a description that contains the
\* local-file-path note appended to the node's description when it has one;
\* any other format is absent from the output node and the description is
\* passed through unchanged.
C15_FormatAndDescription ==
  HasConvertedConcrete =>
    IF IsBinary(GivenNode) THEN BinaryRewritten
    ELSE /\ "format" \notin DOMAIN ReturnedNode
         /\ "description" \in DOMAIN ReturnedNode <=> "description" \in DOMAIN GivenNode
         /\ "description" \in DOMAIN GivenNode =>
              ReturnedNode.description = GivenNode.description

\* C15 (amended): as claimed, except that only a non-empty description is
\* passed through unchanged: an empty description is left out of the output
\* node.
C15_FormatAndNonEmptyDescription ==
  HasConvertedConcrete =>
    IF IsBinary(GivenNode) THEN BinaryRewritten
    ELSE /\ "format" \notin DOMAIN ReturnedNode
         /\ "description" \in DOMAIN ReturnedNode <=> TruthyString(GivenNode, "description")
         /\ TruthyString(GivenNode, "description") =>
              ReturnedNode.description = GivenNode.description

\* A described node of `format: binary` has been converted.
C15_Witness ==
  /\ HasConvertedConcrete
  /\ IsBinary(GivenNode)
  /\ TruthyString(GivenNode, "description")
  /\ ReturnedNode.format = "uri-reference"

----------------------------------------------------------------------------
(* Claims about the schemas of one operation. *)

\* The operations whose ToolMethods are MethodsSoFar(i), in the same order.
EntriesSoFar(i) ==
  IF pc[i] = MCP THEN CompiledEntries(SubSeq(openApiSpec.paths, 1, cursor[i] - 1))
  ELSE IF Completed(i, MCP) THEN CompiledEntries(openApiSpec.paths)
  ELSE << >>

\* The success codes an operation declares.
DeclaredSuccess(operation) ==
  IF "responses" \in DOMAIN operation
  THEN DOMAIN operation.responses \cap {"200", "201", "202", "204"}
  ELSE {}

\* The first of them in the order 200, 201, 202, 204.
FirstSuccess(operation) ==
  IF "200" \in DeclaredSuccess(operation) THEN "200"
  ELSE IF "201" \in DeclaredSuccess(operation) THEN "201"
  ELSE IF "202" \in DeclaredSuccess(operation) THEN "202"
  ELSE "204"

\* Its response, resolved; Null when it cannot be.
FirstResponse(operation) ==
  resolveResponse(operation.responses[FirstSuccess(operation)], FreshSelf(openApiSpec))

HasContent(response) == response # Null /\ "content" \in DOMAIN response

\* A schema without its $defs and description, every cached object in place.
Core(schema, cache) ==
  [k \in DOMAIN Expand(schema, cache) \ {"$defs", "description"} |-> Expand(schema, cache)[k]]

\* The converter's output for a schema on a newly constructed instance.
FreshlyConverted(schema) ==
  convertOpenApiSchemaToJsonSchema(schema, {}, FALSE, FreshSelf(openApiSpec))

\* `response.description || ''`
DescriptionOf(response) ==
  IF TruthyString(response, "description") THEN response.description ELSE ""

\* The return schema is derived from the response: JSON content with a
\* schema gives the converted schema with its own selective defs, image
\* content a binary string descriptor, anything else a plain string descriptor.
DerivedFrom(returnSchema, response, cache) ==
  IF hasContentSchema(response.content, "application/json")
  THEN /\ Core(returnSchema, cache)
            = Core(FreshlyConverted(response.content["application/json"].schema).val,
                   FreshlyConverted(response.content["application/json"].schema).self.schemaCache)
       /\ LocalPointers(Expand(returnSchema, cache)) \cap ComponentNames
            \subseteq DOMAIN DefsOf(Expand(returnSchema, cache))
  ELSE IF DOMAIN response.content \cap {"image/png", "image/jpeg"} # {}
  THEN returnSchema = [type |-> "string", format |-> "binary",
                       description |-> DescriptionOf(response)]
  ELSE returnSchema = [type |-> "string", description |-> DescriptionOf(response)]

BodyObject(operation) ==
  IF "requestBody" \in DOMAIN operation
  THEN resolveRequestBody(operation.requestBody, FreshSelf(openApiSpec))
  ELSE Null

\* The operation has a JSON request body with a schema and no multipart one.
HasJsonBody(operation) ==
  /\ BodyObject(operation) # Null
  /\ "content" \in DOMAIN BodyObject(operation)
  /\ hasContentSchema(BodyObject(operation).content, "application/json")
  /\ ~ hasContentSchema(BodyObject(operation).content, "multipart/form-data")

JsonBodySchema(operation) == BodyObject(operation).content["application/json"].schema

\* The schema a body schema stands for: itself, or the target of its reference.
BodyTarget(schema) ==
  IF "$ref" \in DOMAIN schema
  THEN internalResolveRef(schema["$ref"], {}, FreshSelf(openApiSpec)).val
  ELSE schema

Elements(seq) == { seq[k] : k \in 1..Len(seq) }

RequiredOf(schema) == IF "required" \in DOMAIN schema THEN Elements(schema.required) ELSE {}

PropertiesOf(schema) == IF "properties" \in DOMAIN schema THEN DOMAIN schema.properties ELSE {}

\* C17 (as claimed): for an operation with a JSON request body and no
\* multipart content, a body schema that is an object (inline or by
\* reference to an object component, with or without declared properties)
\* has its properties and required names merged into the input schema and no
\* synthetic property is added; a body schema that is not an object gives
\* the input schema one synthetic required property holding the body schema.
C17_JsonBodyMergedOrNested ==
  \A i \in Inst : \A k \in 1..Len(MethodsSoFar(i)) :
    LET operation == EntriesSoFar(i)[k].operation
        inputSchema == Expand(MethodsSoFar(i)[k].inputSchema, schemaCache[i])
    IN  HasJsonBody(operation) =>
          IF BodyTarget(JsonBodySchema(operation)) # Null
             /\ IsType(BodyTarget(JsonBodySchema(operation)), "object")
          THEN /\ "body" \notin PropertiesOf(inputSchema)
               /\ PropertiesOf(BodyTarget(JsonBodySchema(operation)))
                    \subseteq PropertiesOf(inputSchema)
               /\ RequiredOf(BodyTarget(JsonBodySchema(operation)))
                    \subseteq RequiredOf(inputSchema)
          ELSE /\ "body" \in PropertiesOf(inputSchema)
               /\ "body" \in RequiredOf(inputSchema)
               /\ Core(inputSchema.properties.body, schemaCache[i])
                    = Core(FreshlyConverted(JsonBodySchema(operation)).val,
                           FreshlyConverted(JsonBodySchema(operation)).self.schemaCache)

\* The pointers of the reference nodes anywhere in a schema, the bodies of
\* its $defs entries included.
RECURSIVE PointersIn(_)
PointersIn(v) ==
  (IF ~ IsPrim(v) /\ "$ref" \in DOMAIN v THEN { v["$ref"] } ELSE {})
  \cup UNION { PointersIn(Children(v)[k]) : k \in 1..Len(Children(v)) }
  \cup (IF ~ IsPrim(v) /\ "$defs" \in DOMAIN v
        THEN UNION { PointersIn(v["$defs"][n]) : n \in DOMAIN v["$defs"] }
        ELSE {})

\* The pointer resolves within the $defs map of the schema.
ResolvesLocally(pointer, schema) ==
  /\ startsWith(pointer, "#/$defs/")
  /\ replacePrefix(pointer, "#/$defs/", "") \in DOMAIN DefsOf(schema)

\* The reference a pointer of the output was written for.
ReferenceOf(pointer) ==
  IF startsWith(pointer, "#/$defs/")
  THEN replacePrefix(pointer, "#/$defs/", "#/components/schemas/")
  ELSE pointer

\* The instance has reported the reference as one it failed to resolve.
Reported(i, ref) ==
  [kind |-> "Failed to resolve ref", ref |-> ref] \in diag[i]

\* C18 (as claimed): every pointer that survives into a final inputSchema or
\* returnSchema either resolves within that schema's own $defs map or was
\* reported to the diagnostics sink during the run.
C18_PointerResolvesOrReported ==
  \A i \in Inst : \A schema \in SchemasSoFar(i) : \A pointer \in PointersIn(schema) :
    ResolvesLocally(pointer, schema) \/ Reported(i, ReferenceOf(pointer))

----------------------------------------------------------------------------
(* Claims about the reference resolver. *)

ResolveMethod == "internalResolveRef"

\* The last call was of the resolver.
HasResolved == "value" \in DOMAIN returned[1][ResolveMethod]

\* The path segments of the pointers the resolver is given.
SegmentsOf(pointer) ==
  CASE pointer = "#/components/schemas/A" -> << "components", "schemas", "A" >>
    [] pointer = "#/components/schemas/D" -> << "components", "schemas", "D" >>
    [] pointer = "#/components/schemas/Gone" -> << "components", "schemas", "Gone" >>
    [] pointer = "#/components/parameters/Shared" -> << "components", "parameters", "Shared" >>
    [] pointer = "#/definitions/Legacy" -> << "definitions", "Legacy" >>
    [] pointer = "#/definitions/Gone" -> << "definitions", "Gone" >>
    [] pointer = "#/nowhere/X" -> << "nowhere", "X" >>
    [] OTHER -> << >>

\* << the value at the path >>, or << >> when a segment is missing.
RECURSIVE At(_, _)
At(v, segments) ==
  IF segments = << >> THEN << v >>
  ELSE IF Head(segments) \in DOMAIN v THEN At(v[Head(segments)], Tail(segments))
  ELSE << >>

\* A pointer rooted at the document whose every segment is in the document.
HasTarget(pointer) ==
  /\ Len(pointer) >= 2 /\ SubSeq(pointer, 1, 2) = "#/"
  /\ At(openApiSpec, SegmentsOf(pointer)) # << >>

----------------------------------------------------------------------------
(* Claims about lists of schemas. *)

\* The conversion of each element of a list, in order; the elements given
\* are scalar nodes of a type and a description, which convert to themselves.
ElementwiseConverted(given, returnedValue) ==
  /\ DOMAIN returnedValue = 1..Len(given)
  /\ \A k \in 1..Len(given) : returnedValue[k] = given[k]

\* C20 (as claimed): for an array node whose `items` is a tuple, the output
\* `items` is the list of the converted elements in the same order; likewise
\* each of oneOf, anyOf and allOf converts elementwise with order and length
\* preserved.
C20_ListsConvertedElementwise ==
  HasConvertedConcrete =>
    /\ (IsType(GivenNode, "array") /\ "items" \in DOMAIN GivenNode
        /\ "tuple" \in DOMAIN GivenNode.items) =>
         /\ "items" \in DOMAIN ReturnedNode
         /\ "tuple" \in DOMAIN ReturnedNode.items
         /\ ElementwiseConverted(GivenNode.items.tuple, ReturnedNode.items.tuple)
    /\ \A key \in DOMAIN GivenNode \cap {"oneOf", "anyOf", "allOf"} :
         /\ key \in DOMAIN ReturnedNode
         /\ ElementwiseConverted(GivenNode[key], ReturnedNode[key])

----------------------------------------------------------------------------
(* Claims about an instance that is used for more than one run. *)

\* The step instance i is taking is an iteration of convertToMCPTools that
\* ran to its end (no TypeError) on an operation the loop compiles.
Processes(i) ==
  /\ pc[i] = MCP
  /\ pc'[i] = MCP
  /\ cursor'[i] = cursor[i] + 1
  /\ CompiledEntries(<< openApiSpec.paths[cursor[i]] >>) # << >>

\* The same, the operation's identifier having more than 64 characters.
ProcessesOverLength(i) ==
  /\ Processes(i)
  /\ IsOverLength(openApiSpec.paths[cursor[i]].operation.operationId)

\* Instance i returns from convertToMCPTools, having returned from it before.
ReturnsAgain(i) ==
  /\ Completed(i, MCP)
  /\ pc[i] = MCP
  /\ pc'[i] = "idle"
  /\ "value" \in DOMAIN returned'[i][MCP]

\* The positions of the over-length identifiers among the compiled operations.
OverLengthPositions ==
  { k \in 1..Len(CompiledEntries(openApiSpec.paths)) :
      IsOverLength(CompiledEntries(openApiSpec.paths)[k].operation.operationId) }

\* The names a call of convertToMCPTools returned, in order.
RegistryNames(value) == [k \in 1..Len(value.tools[apiName].methods) |->
                           value.tools[apiName].methods[k].name]

\* C21: the name counter of an instance never decreases and is never reset;
\* it increases by exactly one in each iteration of convertToMCPTools that
\* processes an over-length identifier and is left alone by every other
\* step, whichever call the step belongs to.  Hence a call of
\* convertToMCPTools that returns after an earlier one on the same instance
\* and document returns another name for every over-length identifier, so
\* another list of names whenever there is one.  The memo cache keeps every
\* key it has.
C21_CounterOnlyAdvances ==
  [][\A i \in Inst :
       /\ nameCounter'[i] >= nameCounter[i]
       /\ nameCounter'[i] = nameCounter[i] + (IF ProcessesOverLength(i) THEN 1 ELSE 0)
       /\ DOMAIN schemaCache[i] \subseteq DOMAIN schemaCache'[i]
       /\ ReturnsAgain(i) =>
            /\ Len(RegistryNames(returned'[i][MCP].value))
                 = Len(RegistryNames(returned[i][MCP].value))
            /\ \A k \in OverLengthPositions :
                 RegistryNames(returned'[i][MCP].value)[k]
                   # RegistryNames(returned[i][MCP].value)[k]
            /\ OverLengthPositions # {} =>
                 RegistryNames(returned'[i][MCP].value)
                   # RegistryNames(returned[i][MCP].value)]_vars

\* A second call of convertToMCPTools has returned for a document whose one
\* over-length identifier is now named with the suffix the second call drew,
\* the cache holding what an earlier step wrote.
C21_Witness ==
  /\ Completed(1, MCP)
  /\ Cardinality(OverLengthPositions) = 1
  /\ nameCounter[1] = 2
  /\ \E k \in OverLengthPositions : ToolsOf(1, MCP)[k].name = Prefix59 \o "-0002"
  /\ DOMAIN schemaCache[1] # {}

----------------------------------------------------------------------------
(* Claims about the `required` list of a compiled input schema. *)

CompileMethod == "convertOperationToMCPMethod"

\* The last call was of convertOperationToMCPMethod and returned a ToolMethod.
HasCompiled ==
  /\ "value" \in DOMAIN returned[1][CompileMethod]
  /\ returned[1][CompileMethod].value # Null

CompiledInput == returned[1][CompileMethod].value.inputSchema

\* C22 (as claimed): in every compiled inputSchema the `required` list, when
\* present, is non-empty, contains no name twice, and names only keys of
\* `properties`, for any combination of parameters and request body.
C22_RequiredWellFormed ==
  (HasCompiled /\ "required" \in DOMAIN CompiledInput) =>
    /\ CompiledInput.required # << >>
    /\ \A j, k \in 1..Len(CompiledInput.required) :
         j # k => CompiledInput.required[j] # CompiledInput.required[k]
    /\ \A k \in 1..Len(CompiledInput.required) :
         CompiledInput.required[k] \in DOMAIN CompiledInput.properties

====
